---- MODULE Spec2Model ----
(***************************************************************************)
(* The frame protocol client zigServe (zigCompileServer) of vscode-zig:    *)
(* one session drives one compiler subprocess, reassembles the frames of   *)
(* its standard output and settles one promise.                            *)
(*                                                                         *)
(* Bytes are naturals 0..255, buffers are sequences of bytes (index 0 of   *)
(* the code is element 1 here), text is the sequence of its code points.   *)
(***************************************************************************)
EXTENDS Integers, Sequences, FiniteSets, TLC

VARIABLES
    stream,      \* the bytes the subprocess writes to its stdout if it lives long enough
    pos,         \* how many of them the stdout "data" events have delivered
    dataBuffer,  \* let dataBuffer (zigServe)
    promise,     \* the promise zigServe returns
    settleCalls, \* how often resolve or reject has been called
    progress,    \* the calls of options.onProgress so far, in order
    dispatched,  \* the frames the stdout handler has dispatched so far, in order
    handlerEnd,  \* how the last stdout handler run ended
    killCalls,   \* how often childProcess.kill() has been called
    stderrCalls, \* how many stderr "data" events have fired
    exited,      \* the execFile callback has fired
    stdinWrites, \* the buffers written to childProcess.stdin so far, in order
    bundle,      \* an ErrorBundle under decoding: its stringBytes and extra
    call,        \* the last accessor called on bundle, with its argument
    result       \* what that call returned or threw

\* the state of a session, and the state of a decoding
sessionVars == << stream, pos, dataBuffer, promise, settleCalls, progress, dispatched,
                  handlerEnd, killCalls, stderrCalls, exited, stdinWrites >>

decoderVars == << bundle, call, result >>

vars == << stream, pos, dataBuffer, promise, settleCalls, progress, dispatched,
           handlerEnd, killCalls, stderrCalls, exited, stdinWrites, bundle, call, result >>

(***************************************************************************)
(* Bounds of the model.                                                    *)
(***************************************************************************)
MaxStderr == 1

\* the depth of calls the engine allows before it raises a RangeError
MaxCallStack == 4

(***************************************************************************)
(* Buffer primitives of Node.                                              *)
(***************************************************************************)
Min(a, b) == IF a < b THEN a ELSE b

\* buf.writeUInt32LE(n, _): the four bytes of n, least significant first
writeUInt32LE(n) ==
    << n % 256, (n \div 256) % 256, (n \div 65536) % 256, (n \div 16777216) % 256 >>

\* buf.readUInt32LE(off) is a RangeError unless off + 4 <= buf.length
readInRange(buf, off) == off + 4 <= Len(buf)

readUInt32LE(buf, off) ==
    buf[off + 1] + 256 * buf[off + 2] + 65536 * buf[off + 3] + 16777216 * buf[off + 4]

\* buf.subarray(start, end) for start, end >= 0: both are clamped to the length
subarray(buf, start, end) ==
    LET s == Min(start, Len(buf))
        e == Min(end, Len(buf))
    IN  IF e <= s THEN << >> ELSE SubSeq(buf, s + 1, e)

\* buf.subarray(start)
subarrayFrom(buf, start) == subarray(buf, start, Len(buf))

\* buf.toString("utf8"): one- and two-byte sequences are decoded, a byte that
\* starts no such sequence decodes to U+FFFD (the streams of this model hold no
\* lead byte of a three- or four-byte sequence)
RECURSIVE utf8(_)
utf8(buf) ==
    IF buf = << >> THEN << >>
    ELSE IF buf[1] < 128 THEN << buf[1] >> \o utf8(Tail(buf))
    ELSE IF /\ buf[1] >= 194 /\ buf[1] <= 223 /\ Len(buf) >= 2
            /\ buf[2] >= 128 /\ buf[2] <= 191
         THEN << (buf[1] - 192) * 64 + (buf[2] - 128) >> \o utf8(Tail(Tail(buf)))
    ELSE << 65533 >> \o utf8(Tail(buf))

(***************************************************************************)
(* The promise: the first resolve or reject settles it, later ones are     *)
(* ignored.                                                                *)
(***************************************************************************)
Pending == [state |-> "pending", value |-> << >>]

\* a promise that a later resolve would settle again
resolve_overwrite(p, v) == [state |-> "resolved", value |-> v]

resolve(p, v) == IF p.state = "pending" THEN [state |-> "resolved", value |-> v] ELSE p

reject(p, e) == IF p.state = "pending" THEN [state |-> "rejected", value |-> e] ELSE p

(***************************************************************************)
(* The wire format of a frame, as the stdout handler reads it: tag and     *)
(* length as little-endian u32, then the payload.                          *)
(***************************************************************************)
TagZigVersion == 0
TagErrorBundle == 1
TagProgress == 2
TagEmitBinPath == 3
HeaderLen == 8

Frame(tag, payload) == writeUInt32LE(tag) \o writeUInt32LE(Len(payload)) \o payload

RECURSIVE Words(_)
Words(ws) == IF ws = << >> THEN << >> ELSE writeUInt32LE(Head(ws)) \o Words(Tail(ws))

\* the payload of an error-bundle frame: the two counts, the words, the string bytes
BundlePayload(extra, stringBytes) ==
    writeUInt32LE(Len(extra)) \o writeUInt32LE(Len(stringBytes)) \o Words(extra) \o stringBytes

(***************************************************************************)
(* The ErrorBundle the session resolves with on failure.                   *)
(***************************************************************************)
ErrorBundle(stringBytes, extra) == [stringBytes |-> stringBytes, extra |-> extra]

(***************************************************************************)
(* The message the client sends at the start of the session.               *)
(***************************************************************************)
\* the two headers in the opposite order
messageBuffer_exitFirst ==
    writeUInt32LE(0) \o writeUInt32LE(0) \o writeUInt32LE(1) \o writeUInt32LE(0)

\* Buffer.alloc(16) and the four writeUInt32LE at offsets 0, 4, 8, 12
messageBuffer ==
    writeUInt32LE(1) \o writeUInt32LE(0) \o writeUInt32LE(0) \o writeUInt32LE(0)

\* no decoding is going on during a session
NoCall == [name |-> "none", index |-> 0]
NoResult == [threw |-> "none", value |-> << >>]

(***************************************************************************)
(* The stdout "data" handler.                                              *)
(***************************************************************************)
\* if (dataBuffer.length >= 8)
HeaderReady(buf) == Len(buf) >= HeaderLen

\* if (data.length < 8)
BundleTooShort(data) == Len(data) < 8

\* the handler without the length check
BundleMismatch_unchecked(bytesLen, extraLen, stringBytesLen) == FALSE

\* if (bytesLen !== 8 + 4 * extraLen + stringBytesLen)
\* (evaluated without leaving the signed 32-bit integers of the checker: when
\* 4 * extraLen alone exceeds bytesLen the two sides differ)
BundleMismatch(bytesLen, extraLen, stringBytesLen) ==
    IF extraLen > bytesLen \div 4
    THEN TRUE
    ELSE bytesLen - 4 * extraLen - 8 # stringBytesLen

\* extra.forEach((_, index) => { extra[index] = extraData.readUInt32LE(4 * index); })
ExtraThrows(extraData, extraLen) ==
    \E index \in 0 .. (extraLen - 1) : ~readInRange(extraData, 4 * index)

\* the words read as single bytes
ExtraWords_lowByte(extraData, extraLen) ==
    [i \in 1 .. extraLen |-> extraData[4 * (i - 1) + 1]]

ExtraWords(extraData, extraLen) ==
    [i \in 1 .. extraLen |-> readUInt32LE(extraData, 4 * (i - 1))]

Outcome(act, value, calls, kill) ==
    [act |-> act, value |-> value, calls |-> calls, kill |-> kill]

\* case 1: error_bundle
ErrorBundleCase(bytesLen, data) ==
    IF BundleTooShort(data)
    THEN Outcome("reject", "received error bundle with insufficient size", << >>, 0)
    ELSE LET extraLen == readUInt32LE(data, 0)
             stringBytesLen == readUInt32LE(data, 4)
             errorBundleData == subarrayFrom(data, 8)
         IN  IF BundleMismatch(bytesLen, extraLen, stringBytesLen)
             THEN Outcome("reject", "error bundle data mismatch", << >>, 0)
             ELSE LET stringBytes == subarrayFrom(errorBundleData, 4 * extraLen)
                      extraData == subarray(errorBundleData, 0, 4 * extraLen)
                  IN  IF ExtraThrows(extraData, extraLen)
                      THEN Outcome("throw", "RangeError", << >>, 0)
                      ELSE Outcome("resolve",
                                   [success |-> FALSE,
                                    errorBundle |->
                                        ErrorBundle(stringBytes,
                                                    ExtraWords(extraData, extraLen))],
                                   << >>, 0)

\* case 2: progress
ProgressCase(data) == Outcome("break", << >>, << utf8(data) >>, 0)

\* the path with the sub-tag byte left in
EmitBinPathCase_keepSubTag(data) ==
    [act |-> "resolve", value |-> [success |-> TRUE, path |-> utf8(data)],
     calls |-> << >>, kill |-> 0]

\* case 3: emit_bin_path
EmitBinPathCase(data) ==
    Outcome("resolve", [success |-> TRUE, path |-> utf8(subarrayFrom(data, 1))], << >>, 0)

\* the default case without the kill
UnexpectedTagCase_noKill(tag) ==
    [act |-> "reject", value |-> "received unexpected message tag " \o ToString(tag),
     calls |-> << >>, kill |-> 0]

\* default: reject, then childProcess.kill()
UnexpectedTagCase(tag) ==
    Outcome("reject", "received unexpected message tag " \o ToString(tag), << >>, 1)

\* switch (tag)
Dispatch(tag, bytesLen, data) ==
    CASE tag = TagZigVersion  -> Outcome("break", << >>, << >>, 0)
      [] tag = TagErrorBundle -> ErrorBundleCase(bytesLen, data)
      [] tag = TagProgress    -> ProgressCase(data)
      [] tag = TagEmitBinPath -> EmitBinPathCase(data)
      [] OTHER                -> UnexpectedTagCase(tag)

\* what an outcome does to the promise
Settle(p, o) ==
    CASE o.act = "resolve" -> resolve(p, o.value)
      [] o.act = "reject"  -> reject(p, o.value)
      [] OTHER             -> p

FrameCalls(calls) == [i \in 1 .. Len(calls) |-> [src |-> "frame", text |-> calls[i]]]

\* one run of the body of the stdout handler on dataBuffer = buf (the buffer
\* after Buffer.concat): the frame it takes, what is left, what the switch does
OnData(buf) ==
    IF HeaderReady(buf)
    THEN LET tag == readUInt32LE(buf, 0)
             bytesLen == readUInt32LE(buf, 4)
             data == subarray(buf, 8, 8 + bytesLen)
         IN  [took |-> TRUE, tag |-> tag, bytesLen |-> bytesLen, data |-> data,
              rest |-> subarrayFrom(buf, 8 + bytesLen),
              o |-> Dispatch(tag, bytesLen, data)]
    ELSE [took |-> FALSE, tag |-> 0, bytesLen |-> 0, data |-> << >>,
          rest |-> buf, o |-> Outcome("wait", << >>, << >>, 0)]

\* childProcess.stdout.on("data", (stdout) => { ... }) with a chunk of n bytes
StdoutData(n) ==
    /\ ~exited
    /\ pos + n <= Len(stream)
    /\ pos' = pos + n
    /\ \E h \in { OnData(dataBuffer \o SubSeq(stream, pos + 1, pos + n)) } :
           /\ dataBuffer' = h.rest
           /\ promise' = Settle(promise, h.o)
           /\ settleCalls' =
                  settleCalls + (IF h.o.act \in {"resolve", "reject"} THEN 1 ELSE 0)
           /\ progress' = progress \o FrameCalls(h.o.calls)
           /\ dispatched' =
                  IF h.took
                  THEN Append(dispatched,
                              [off |-> pos - Len(dataBuffer), tag |-> h.tag,
                               bytesLen |-> h.bytesLen, data |-> h.data,
                               before |-> promise.state, act |-> h.o.act])
                  ELSE dispatched
           /\ handlerEnd' = h.o.act
           /\ killCalls' = killCalls + h.o.kill
    /\ UNCHANGED << stream, stderrCalls, exited, stdinWrites >>
    /\ UNCHANGED decoderVars

\* childProcess.stderr.on("data", (stderr) => { options.onProgress(stderr); })
StderrTexts == { << 101 >> }

StderrData(stderr) ==
    /\ ~exited
    /\ stderrCalls < MaxStderr
    /\ stderrCalls' = stderrCalls + 1
    /\ progress' = Append(progress, [src |-> "stderr", text |-> stderr])
    /\ UNCHANGED << stream, pos, dataBuffer, promise, settleCalls, dispatched,
                    handlerEnd, killCalls, exited, stdinWrites >>
    /\ UNCHANGED decoderVars

\* the execFile callback: reject(error ?? new Error(`failed to run ...`))
ExitErrors == { "null", "ExecException" }

ExitCallback(p, error) == reject(p, IF error = "null" THEN "failed to run" ELSE error)

Exit(error) ==
    /\ ~exited
    /\ exited' = TRUE
    /\ promise' = ExitCallback(promise, error)
    /\ settleCalls' = settleCalls + 1
    /\ UNCHANGED << stream, pos, dataBuffer, progress, dispatched, handlerEnd,
                    killCalls, stderrCalls, stdinWrites >>
    /\ UNCHANGED decoderVars

(***************************************************************************)
(* The streams a subprocess writes in this model.  Every byte is below 128, *)
(* so every u32 the handler reads, at whatever offset, is below 2^31.      *)
(***************************************************************************)
VersionFrame == Frame(TagZigVersion, << 48 >>)
ProgressA == Frame(TagProgress, << 97 >>)
ProgressB == Frame(TagProgress, << 98, 99 >>)
\* a progress text whose bytes read as the frame {tag 3, length 2, [0, "x"]}
ProgressShadow == Frame(TagProgress, << 3, 0, 0, 0, 2, 0, 0, 0, 0, 120 >>)
BinFrame == Frame(TagEmitBinPath, << 0, 98, 105, 110 >>)
BinFrame7 == Frame(TagEmitBinPath, << 7, 98 >>)
BundleFrame == Frame(TagErrorBundle, BundlePayload(<< 258 >>, << 0, 104, 0 >>))
EmptyBundleFrame == Frame(TagErrorBundle, BundlePayload(<< >>, << >>))
\* counts 1 word and 1 string byte, carries the word only
MismatchFrame == Frame(TagErrorBundle, writeUInt32LE(1) \o writeUInt32LE(1) \o << 2, 1, 0, 0 >>)
ShortBundleFrame == Frame(TagErrorBundle, << 1, 0, 0 >>)
UnknownFrame == Frame(4, << >>)
Unknown257Frame == Frame(257, << 9 >>)

Frames ==
    { VersionFrame, ProgressA, ProgressB, ProgressShadow, BinFrame, BinFrame7,
      BundleFrame, EmptyBundleFrame, MismatchFrame, ShortBundleFrame,
      UnknownFrame, Unknown257Frame }

\* the frames that open the two-frame streams: one of every tag
Leading == { VersionFrame, ProgressA, BinFrame, EmptyBundleFrame, UnknownFrame }

Streams ==
    { << >> } \cup Frames \cup { f \o g : f \in Leading, g \in Frames }
      \cup { VersionFrame \o ProgressA \o BinFrame,
             VersionFrame \o ProgressA \o ProgressB \o BundleFrame }

Init ==
    /\ stream \in Streams
    /\ pos = 0
    /\ dataBuffer = << >>
    /\ promise = Pending
    /\ settleCalls = 0
    /\ progress = << >>
    /\ dispatched = << >>
    /\ handlerEnd = "none"
    /\ killCalls = 0
    /\ stderrCalls = 0
    /\ exited = FALSE
    /\ stdinWrites = << messageBuffer >>
    /\ bundle = ErrorBundle(<< >>, << >>)
    /\ call = NoCall
    /\ result = NoResult

Next ==
    \/ \E n \in 1 .. (Len(stream) - pos) : StdoutData(n)
    \/ \E stderr \in StderrTexts : StderrData(stderr)
    \/ \E error \in ExitErrors : Exit(error)

Spec == Init /\ [][Next]_vars

(***************************************************************************)
(* The ErrorBundle decoder (errorBundle.ts).  A typed-array read outside   *)
(* the array gives undefined and arithmetic on undefined gives NaN; words  *)
(* are never negative, so the two are written as negative numbers.         *)
(***************************************************************************)
Undefined == 0 - 1
NaN == 0 - 2

\* arr[i] of a Uint32Array
At(arr, i) == IF i >= 0 /\ i < Len(arr) THEN arr[i + 1] ELSE Undefined

\* a + b of two words or undefined
Plus(a, b) == IF a < 0 \/ b < 0 THEN NaN ELSE a + b

\* extra.subarray(begin, end): an undefined begin and a NaN begin or end count
\* as 0, an undefined end as the length, both are clamped to the length
wordSubarray(arr, begin, end) ==
    LET b == IF begin < 0 THEN 0 ELSE Min(begin, Len(arr))
        e == IF end = Undefined THEN Len(arr) ELSE IF end < 0 THEN 0 ELSE Min(end, Len(arr))
    IN  IF e <= b THEN << >> ELSE SubSeq(arr, b + 1, e)

\* stringBytes.indexOf(0, from): -1 when no zero byte is at or after from
indexOfZero(bytes, from) ==
    IF \E k \in (from + 1) .. Len(bytes) : bytes[k] = 0
    THEN (CHOOSE k \in (from + 1) .. Len(bytes) :
              bytes[k] = 0 /\ \A j \in (from + 1) .. (k - 1) : bytes[j] # 0) - 1
    ELSE 0 - 1

\* stringBytes.subarray(begin, end) for begin >= 0: a negative end counts from
\* the end of the array
byteSubarray(bytes, begin, end) ==
    LET b == Min(begin, Len(bytes))
        e == IF end < 0 THEN (IF Len(bytes) + end < 0 THEN 0 ELSE Len(bytes) + end)
             ELSE Min(end, Len(bytes))
    IN  IF e <= b THEN << >> ELSE SubSeq(bytes, b + 1, e)

\* the count without the test for an empty buffer
errorMessageCount_unguarded(b) == At(b.extra, 0)

\* errorMessageCount()
errorMessageCount(b) == IF Len(b.extra) = 0 THEN 0 ELSE At(b.extra, 0)

\* getErrorMessageList()
getErrorMessageList(b) ==
    [len |-> At(b.extra, 0), start |-> At(b.extra, 1), compileLogText |-> At(b.extra, 2)]

\* getMessages()
getMessages(b) ==
    LET list == getErrorMessageList(b)
    IN  wordSubarray(b.extra, list.start, Plus(list.start, list.len))

\* the record with the srcLoc word as stored
getErrorMessage_rawSrcLoc(b, index) ==
    [msg |-> At(b.extra, index),
     count |-> At(b.extra, index + 1),
     srcLoc |-> At(b.extra, index + 2),
     notesLen |-> At(b.extra, index + 3)]

\* getErrorMessage(index)
getErrorMessage(b, index) ==
    LET srcLoc == At(b.extra, index + 2)
    IN  [msg |-> At(b.extra, index),
         count |-> At(b.extra, index + 1),
         srcLoc |-> IF srcLoc # 0 THEN srcLoc ELSE Undefined,
         notesLen |-> At(b.extra, index + 3)]

\* getSourceLocation(index)
getSourceLocation(b, index) ==
    LET sourceLine == At(b.extra, index + 6)
    IN  [srcPath |-> At(b.extra, index),
         line |-> At(b.extra, index + 1),
         column |-> At(b.extra, index + 2),
         spanStart |-> At(b.extra, index + 3),
         spanMain |-> At(b.extra, index + 4),
         spanEnd |-> At(b.extra, index + 5),
         sourceLine |-> IF sourceLine # 0 THEN sourceLine ELSE Undefined,
         referenceTraceLen |-> At(b.extra, index + 7)]

\* getReferenceTrace(index)
getReferenceTrace(b, index) ==
    LET srcLoc == At(b.extra, index + 1)
    IN  IF srcLoc = 0
        THEN [kind |-> "sentinel", hiddenReferences |-> srcLoc]
        ELSE [kind |-> "node", declName |-> At(b.extra, index), srcLoc |-> srcLoc]

\* the run taken from the notesLen word on
getNotes_fromCount(b, index) ==
    LET notesLen == getErrorMessage(b, index).notesLen
        start == index + 3
    IN  wordSubarray(b.extra, start, Plus(start, notesLen))

\* getNotes(index)
getNotes(b, index) ==
    LET notesLen == getErrorMessage(b, index).notesLen
        start == index + 4
    IN  wordSubarray(b.extra, start, Plus(start, notesLen))

\* getReferenceTraces(index)
getReferenceTraces(b, index) ==
    LET referenceTraceLen == getSourceLocation(b, index).referenceTraceLen
        start == index + 8
    IN  wordSubarray(b.extra, start, Plus(start, referenceTraceLen))

\* nullTerminatedString(index); an undefined index counts as 0 in both calls
nullTerminatedString(b, index) ==
    LET from == IF index < 0 THEN 0 ELSE index
        end == indexOfZero(b.stringBytes, from)
    IN  utf8(byteSubarray(b.stringBytes, from, end))

\* getCompileLogOutput()
getCompileLogOutput(b) == nullTerminatedString(b, getErrorMessageList(b).compileLogText)

(***************************************************************************)
(* The text renderer (toString, renderErrorMessage).  The text is kept as  *)
(* the sequence of the pieces that str.join("") concatenates: a literal, a *)
(* number printed by toString(), a decoded text, or ch.repeat(n).          *)
(***************************************************************************)
Lit(str) == [k |-> "lit", s |-> str, n |-> 0, text |-> << >>]
Txt(text) == [k |-> "text", s |-> "", n |-> 0, text |-> text]
Rep(ch, n) == [k |-> "repeat", s |-> ch, n |-> n, text |-> << >>]

\* a number of the renderer's arithmetic: NaN, or an integer of either sign
Number(w) == IF w < 0 THEN [nan |-> TRUE, v |-> 0] ELSE [nan |-> FALSE, v |-> w]
Sub(x, y) == IF x.nan \/ y.nan THEN [nan |-> TRUE, v |-> 0] ELSE [nan |-> FALSE, v |-> x.v - y.v]

\* x.toString()
Num(x) == IF x.nan THEN Lit("NaN") ELSE [k |-> "num", s |-> "", n |-> x.v, text |-> << >>]

\* Math.min(0, x)
MathMin0(x) == IF x.nan THEN x ELSE [nan |-> FALSE, v |-> Min(0, x.v)]

Ok(out) == [threw |-> "none", out |-> out]
Threw(error) == [threw |-> error, out |-> << >>]

\* what two consecutive pushes leave in str, unless the first one threw
Then(r1, r2) ==
    IF r1.threw # "none" THEN r1
    ELSE IF r2.threw # "none" THEN r2
    ELSE Ok(r1.out \o r2.out)

\* ch.repeat(x): NaN counts as 0, a negative count is a RangeError
Repeat(ch, x) ==
    IF x.nan THEN Ok(<< Rep(ch, 0) >>)
    ELSE IF x.v < 0 THEN Threw("RangeError")
    ELSE Ok(<< Rep(ch, x.v) >>)

\* text.replace(ch, by): the first occurrence only
RECURSIVE replaceFirst(_, _, _)
replaceFirst(text, ch, by) ==
    IF text = << >> THEN << >>
    ELSE IF Head(text) = ch THEN by \o Tail(text)
    ELSE << Head(text) >> \o replaceFirst(Tail(text), ch, by)

Spaces(n) == [i \in 1 .. n |-> 32]

MessageText_always(text, count) ==
    IF count = Undefined THEN Threw("TypeError")
    ELSE Ok(<< Txt(text), Lit(" ("), Num(Number(count)), Lit(" times)\n") >>)

\* if (errMsg.count === 1) push(text, "\n") else push(`${text} (${count} times)\n`)
MessageText(text, count) ==
    IF count = 1 THEN Ok(<< Txt(text), Lit("\n") >>)
    ELSE IF count = Undefined THEN Threw("TypeError")
    ELSE Ok(<< Txt(text), Lit(" ("), Num(Number(count)), Lit(" times)\n") >>)

\* the source line and the caret line under it
SourceLine(b, src) ==
    LET line == nullTerminatedString(b, src.sourceLine)
        beforeCaret == Sub(Number(src.spanMain), Number(src.spanStart))
        afterCaret == MathMin0(Sub(Sub(Number(src.spanEnd), Number(src.spanMain)),
                                   Number(1)))
    IN  Then(Ok(<< Txt(replaceFirst(line, 9, << 32 >>)), Lit("\n") >>),
        Then(Repeat(" ", Sub(Number(src.column), beforeCaret)),
        Then(Repeat("~", beforeCaret),
        Then(Ok(<< Lit("^") >>),
        Then(Repeat("~", afterCaret),
             Ok(<< Lit("\n") >>))))))

RECURSIVE renderErrorMessage(_, _, _, _, _, _)
RECURSIVE renderNotes(_, _, _, _, _)

\* for (const note of this.getNotes(errMsgIndex)) renderErrorMessage(.., "note", indent + 4)
renderNotes(b, options, notes, indent, depth) ==
    IF notes = << >> THEN Ok(<< >>)
    ELSE LET first == renderErrorMessage(b, options, Head(notes), "note", indent, depth)
         IN  IF first.threw # "none" THEN first
             ELSE Then(first, renderNotes(b, options, Tail(notes), indent, depth))

\* renderErrorMessage(str, options, errMsgIndex, kind, indent), as call number
\* depth on the stack
renderErrorMessage(b, options, errMsgIndex, kind, indent, depth) ==
    IF depth > MaxCallStack THEN Threw("RangeError")
    ELSE
    LET errMsg == getErrorMessage(b, errMsgIndex)
        msg == nullTerminatedString(b, errMsg.msg)
    IN  IF errMsg.srcLoc # Undefined
        THEN LET src == getSourceLocation(b, errMsg.srcLoc)
                 indentedMsg == replaceFirst(msg, 10, Spaces(indent))
             IN  Then(Ok(<< Rep(" ", indent),
                            Txt(nullTerminatedString(b, src.srcPath)),
                            Lit(":"), Num(Number(Plus(src.line, 1))),
                            Lit(":"), Num(Number(Plus(src.column, 1))),
                            Lit(": "), Lit(kind), Lit(": ") >>),
                 Then(MessageText(indentedMsg, errMsg.count),
                      IF src.sourceLine # Undefined /\ options.includeSourceLine
                      THEN SourceLine(b, src)
                      ELSE Ok(<< >>)))
        ELSE Then(Ok(<< Rep(" ", indent), Lit(kind), Lit(": ") >>),
             Then(MessageText(msg, errMsg.count),
                  renderNotes(b, options, getNotes(b, errMsgIndex), indent + 4, depth + 1)))

\* for (const errMsg of this.getMessages()) renderErrorMessage(.., "error", 0)
RECURSIVE renderRoots(_, _, _)
renderRoots(b, options, roots) ==
    IF roots = << >> THEN Ok(<< >>)
    ELSE LET first == renderErrorMessage(b, options, Head(roots), "error", 0, 1)
         IN  IF first.threw # "none" THEN first
             ELSE Then(first, renderRoots(b, options, Tail(roots)))

\* toString(options)
toString(b, options) ==
    Then(renderRoots(b, options, getMessages(b)),
         IF options.includeLogText /\ getCompileLogOutput(b) # << >>
         THEN Ok(<< Lit("\nCompile Log Output:\n"), Txt(getCompileLogOutput(b)) >>)
         ELSE Ok(<< >>))

\* the options a caller passes; includeReferenceTrace is read nowhere
RenderOptions ==
    [includeReferenceTrace : {FALSE}, includeSourceLine : BOOLEAN, includeLogText : BOOLEAN]

(***************************************************************************)
(* The bundles decoded in this model.                                      *)
(***************************************************************************)
\* "" at 0, "e" at 1, "n" at 3, "p" at 5, "\ts" at 7, "d" at 10, "l" at 12
FullStrings == << 0,  101, 0,  110, 0,  112, 0,  9, 115, 0,  100, 0,  108, 0 >>

\* two root messages A (word 5) and B (word 10), both with the note C (word 29);
\* B has the source location at word 15, which has a source line and two
\* reference traces: a node (word 25, to the location at word 33) and a
\* sentinel for 3 hidden references (word 27)
FullExtra ==
    << 2, 3, 12 >>                            \* list: len, start, compileLogText
    \o << 5, 10 >>                            \* the root message indices
    \o << 1, 1, 0, 1 >> \o << 29 >>           \* A: msg, count, srcLoc, notesLen; note
    \o << 1, 3, 15, 1 >> \o << 29 >>          \* B
    \o << 5, 0, 4, 2, 4, 7, 7, 2 >> \o << 25, 27 >>   \* location of B; traces
    \o << 10, 33 >>                           \* trace node: declName, srcLoc
    \o << 3, 0 >>                             \* trace sentinel
    \o << 3, 1, 0, 0 >>                       \* C
    \o << 5, 2, 0, 0, 0, 1, 0, 0 >>           \* location of the trace node

FullBundle == ErrorBundle(FullStrings, FullExtra)

\* one root message without location and notes, no compile log
OneMessageBundle == ErrorBundle(<< 0, 101, 0 >>, << 1, 3, 0 >> \o << 4 >> \o << 1, 1, 0, 0 >>)

\* new ErrorBundle()
EmptyBundle == ErrorBundle(<< >>, << >>)

\* malformed: the list counts 2 messages and holds 1; the message counts 2 notes
\* and holds none; the strings lack the last zero byte
TruncatedBundle == ErrorBundle(<< 0, 101 >>, << 2, 3, 0 >> \o << 4 >> \o << 1, 1, 0, 2 >>)

\* malformed: the string storage does not start with a zero byte
NoEmptyStringBundle == ErrorBundle(<< 104, 0 >>, << 0, 3, 0 >>)

\* malformed: the only message is its own note
CyclicBundle == ErrorBundle(<< 0, 101, 0 >>, << 1, 3, 0 >> \o << 4 >> \o << 1, 1, 0, 1 >> \o << 4 >>)

Bundles ==
    { FullBundle, OneMessageBundle, EmptyBundle, TruncatedBundle, NoEmptyStringBundle,
      CyclicBundle }

(***************************************************************************)
(* The accessor calls on a bundle.                                         *)
(***************************************************************************)
Returned(name, index, value) ==
    /\ call' = [name |-> name, index |-> index]
    /\ result' = [threw |-> "none", value |-> value]
    /\ UNCHANGED bundle
    /\ UNCHANGED sessionVars

ErrorMessageCount == Returned("errorMessageCount", 0, errorMessageCount(bundle))

GetErrorMessageList == Returned("getErrorMessageList", 0, getErrorMessageList(bundle))

GetMessages == Returned("getMessages", 0, getMessages(bundle))

GetErrorMessage(index) == Returned("getErrorMessage", index, getErrorMessage(bundle, index))

GetSourceLocation(index) ==
    Returned("getSourceLocation", index, getSourceLocation(bundle, index))

GetReferenceTrace(index) ==
    Returned("getReferenceTrace", index, getReferenceTrace(bundle, index))

GetNotes(index) == Returned("getNotes", index, getNotes(bundle, index))

GetReferenceTraces(index) ==
    Returned("getReferenceTraces", index, getReferenceTraces(bundle, index))

NullTerminatedString(index) ==
    Returned("nullTerminatedString", index, nullTerminatedString(bundle, index))

GetCompileLogOutput == Returned("getCompileLogOutput", 0, getCompileLogOutput(bundle))

\* toString(options): the text, or the error it threw
BundleToString(options) ==
    \E r \in { toString(bundle, options) } :
        /\ call' = [name |-> "toString", index |-> 0, options |-> options]
        /\ result' = [threw |-> r.threw, value |-> r.out]
        /\ UNCHANGED bundle
        /\ UNCHANGED sessionVars

\* renderErrorMessage(str, options, index, kind, indent) on an empty str
RenderErrorMessage(options, index, kind, indent) ==
    \E r \in { renderErrorMessage(bundle, options, index, kind, indent, 1) } :
        /\ call' = [name |-> "renderErrorMessage", index |-> index, options |-> options,
                    kind |-> kind, indent |-> indent]
        /\ result' = [threw |-> r.threw, value |-> r.out]
        /\ UNCHANGED bundle
        /\ UNCHANGED sessionVars

\* the indices an accessor is called with: every word, every byte, and one past
WordIndices == 0 .. Len(bundle.extra)
ByteIndices == 0 .. Len(bundle.stringBytes)

DecoderInit ==
    /\ bundle \in Bundles
    /\ call = NoCall
    /\ result = NoResult
    /\ stream = << >>
    /\ pos = 0
    /\ dataBuffer = << >>
    /\ promise = Pending
    /\ settleCalls = 0
    /\ progress = << >>
    /\ dispatched = << >>
    /\ handlerEnd = "none"
    /\ killCalls = 0
    /\ stderrCalls = 0
    /\ exited = FALSE
    /\ stdinWrites = << messageBuffer >>

DecoderNext ==
    \/ ErrorMessageCount
    \/ GetErrorMessageList
    \/ GetMessages
    \/ \E index \in WordIndices : GetErrorMessage(index)
    \/ \E index \in WordIndices : GetSourceLocation(index)
    \/ \E index \in WordIndices : GetReferenceTrace(index)
    \/ \E index \in WordIndices : GetNotes(index)
    \/ \E index \in WordIndices : GetReferenceTraces(index)
    \/ \E index \in ByteIndices : NullTerminatedString(index)
    \/ GetCompileLogOutput
    \/ \E options \in RenderOptions : BundleToString(options)
    \/ \E options \in RenderOptions, index \in WordIndices :
           \/ RenderErrorMessage(options, index, "error", 0)
           \/ RenderErrorMessage(options, index, "note", 4)

DecoderSpec == DecoderInit /\ [][DecoderNext]_vars

(***************************************************************************)
(* The stream as the wire format defines it, read from the bytes without   *)
(* the handler: the reference the properties below compare the session to. *)
(***************************************************************************)
WordAt(s, k) == s[k + 1] + 256 * s[k + 2] + 65536 * s[k + 3] + 16777216 * s[k + 4]

\* the complete frames of s, in order; a truncated last frame is left out
RECURSIVE FramesOf(_)
FramesOf(s) ==
    IF Len(s) < 8 \/ Len(s) - 8 < WordAt(s, 4)
    THEN << >>
    ELSE << [tag |-> WordAt(s, 0), payload |-> SubSeq(s, 9, 8 + WordAt(s, 4))] >>
             \o FramesOf(SubSeq(s, 9 + WordAt(s, 4), Len(s)))

RECURSIVE FramesLen(_)
FramesLen(fs) == IF fs = << >> THEN 0 ELSE 8 + Len(Head(fs).payload) + FramesLen(Tail(fs))

\* length = 8 + 4*extraWordCount + stringByteCount, for lengths and counts below 2^31
Consistent(len, extraWordCount, stringByteCount) ==
    /\ extraWordCount <= len \div 4
    /\ len - 8 - stringByteCount = 4 * extraWordCount

IsTerminal(f) == f.tag \in {1, 3}

ValidFrame(f) ==
    /\ f.tag \in {0, 1, 2, 3}
    /\ f.tag = 1 =>
           /\ Len(f.payload) >= 8
           /\ Consistent(Len(f.payload), WordAt(f.payload, 0), WordAt(f.payload, 4))

\* a valid sequence of frames whose last frame, and no other, is terminal
ValidTerminated(s) ==
    LET fs == FramesOf(s)
    IN  /\ fs # << >>
        /\ FramesLen(fs) = Len(s)
        /\ \A i \in 1 .. Len(fs) : ValidFrame(fs[i]) /\ (IsTerminal(fs[i]) <=> i = Len(fs))

\* the session after the whole of s has come in one stdout chunk
OneChunk(s) ==
    LET h == OnData(s)
    IN  [promise |-> Settle(Pending, h.o), progress |-> FrameCalls(h.o.calls)]

FrameTexts == SelectSeq(progress, LAMBDA c : c.src = "frame")

AllDelivered == pos = Len(stream) /\ ~exited

(***************************************************************************)
(* C1: frame reassembly is chunk-invariant: for a valid sequence of frames *)
(* that ends in a terminal frame, once every byte has been delivered the   *)
(* session outcome and the progress-sink calls are those of delivering the *)
(* whole stream in one chunk, however the bytes were split.                *)
(***************************************************************************)
C1_ChunkInvariant ==
    (AllDelivered /\ ValidTerminated(stream)) =>
        /\ promise = OneChunk(stream).promise
        /\ FrameTexts = OneChunk(stream).progress

(***************************************************************************)
(* C2: the promise settles once: when it is resolved or rejected, no later *)
(* frame, stderr event or exit callback changes its state or its value.    *)
(***************************************************************************)
C2_SettlesOnce == [][promise.state # "pending" => promise' = promise]_vars

\* a session whose promise was resolved and saw a later resolve or reject call
C2_Witness == promise.state = "resolved" /\ settleCalls >= 2 /\ exited

(***************************************************************************)
(* C3: once a terminal frame has resolved the session, later stdout bytes  *)
(* are ignored: no frame is dispatched (and so none reaches the progress   *)
(* sink) while the promise is resolved.                                    *)
(***************************************************************************)
C3_IgnoredAfterResolve ==
    \A i \in DOMAIN dispatched : dispatched[i].before # "resolved"

(***************************************************************************)
(* C4: for a stream made of a version frame, progress frames and a         *)
(* terminal frame, once every byte has been delivered the progress sink    *)
(* has been called once per progress frame, in stream order, with the      *)
(* frame's text, and the outcome is the one the terminal frame alone       *)
(* gives.                                                                  *)
(***************************************************************************)
VersionProgressTerminal(s) ==
    LET fs == FramesOf(s)
    IN  /\ ValidTerminated(s)
        /\ Len(fs) >= 2
        /\ fs[1].tag = 0
        /\ \A i \in 2 .. (Len(fs) - 1) : fs[i].tag = 2

ProgressTexts(fs) ==
    LET ps == SelectSeq(fs, LAMBDA f : f.tag = 2)
    IN  [i \in 1 .. Len(ps) |-> [src |-> "frame", text |-> utf8(ps[i].payload)]]

TerminalAlone(s) ==
    LET fs == FramesOf(s)
        t == fs[Len(fs)]
    IN  OneChunk(Frame(t.tag, t.payload)).promise

C4_ProgressThenOutcome ==
    (AllDelivered /\ VersionProgressTerminal(stream)) =>
        /\ FrameTexts = ProgressTexts(FramesOf(stream))
        /\ promise = TerminalAlone(stream)

(***************************************************************************)
(* C5: an error-bundle frame whose payload is shorter than the 8-byte      *)
(* count sub-header, or whose declared length differs from                 *)
(* 8 + 4*extraWordCount + stringByteCount, is answered by reject: it never *)
(* resolves the session, and a session that was pending is rejected.       *)
(***************************************************************************)
\* the frame the handler took at stream offset off declares a length that its
\* sub-header (the two words that follow the header in the stream) contradicts
DeclaresMismatch(f) ==
    /\ Len(f.data) >= 8
    /\ ~Consistent(WordAt(stream, f.off + 4), WordAt(stream, f.off + 8),
                   WordAt(stream, f.off + 12))

C5_BadBundleRejected ==
    \A i \in DOMAIN dispatched :
        LET f == dispatched[i]
        IN  (WordAt(stream, f.off) = 1 /\ (Len(f.data) < 8 \/ DeclaresMismatch(f))) =>
                /\ f.act = "reject"
                /\ f.before = "pending" => promise.state = "rejected"

\* a pending session was rejected by a frame whose length contradicts its counts
C5_Witness ==
    /\ promise = [state |-> "rejected", value |-> "error bundle data mismatch"]
    /\ \E i \in DOMAIN dispatched :
           /\ dispatched[i].tag = 1
           /\ dispatched[i].before = "pending"
           /\ Len(dispatched[i].data) = dispatched[i].bytesLen
           /\ DeclaresMismatch(dispatched[i])

(***************************************************************************)
(* C6: a complete error-bundle frame (all of its declared payload is in    *)
(* the buffer) whose length equals 8 + 4*extraWordCount + stringByteCount  *)
(* resolves a pending session with Failure and a bundle whose extra array  *)
(* is the extraWordCount little-endian words at payload offset 8 + 4*i and *)
(* whose string storage is the stringByteCount bytes after the words.      *)
(***************************************************************************)
\* the frame the handler took is whole: its payload has the declared length
Complete(f) == Len(f.data) = WordAt(stream, f.off + 4)

ExpectedBundle(off) ==
    LET e == WordAt(stream, off + 8)
        n == WordAt(stream, off + 12)
    IN  [extra |-> [i \in 1 .. e |-> WordAt(stream, off + 16 + 4 * (i - 1))],
         stringBytes |-> [j \in 1 .. n |-> stream[off + 16 + 4 * e + j]]]

C6_BundleDecoded ==
    \A i \in DOMAIN dispatched :
        LET f == dispatched[i]
        IN  (/\ WordAt(stream, f.off) = 1
             /\ Complete(f)
             /\ Len(f.data) >= 8
             /\ ~DeclaresMismatch(f)
             /\ f.before = "pending") =>
                promise = [state |-> "resolved",
                           value |-> [success |-> FALSE,
                                      errorBundle |-> ExpectedBundle(f.off)]]

\* the bundle frame with one word (258) and three string bytes was decoded
C6_Witness ==
    /\ promise = [state |-> "resolved",
                  value |-> [success |-> FALSE,
                             errorBundle |-> [extra |-> << 258 >>,
                                              stringBytes |-> << 0, 104, 0 >>]]]
    /\ \E i \in DOMAIN dispatched :
           dispatched[i].tag = 1 /\ Complete(dispatched[i]) /\ dispatched[i].off > 0

(***************************************************************************)
(* C7: a complete artifact-path frame (tag 3) resolves a pending session   *)
(* with Success whose path is the text of the payload without its first    *)
(* byte, whatever that byte is; the payload [0, "b", "i", "n"] gives "bin".*)
(***************************************************************************)
C7_BinPath ==
    \A i \in DOMAIN dispatched :
        LET f == dispatched[i]
        IN  (WordAt(stream, f.off) = 3 /\ Complete(f) /\ f.before = "pending") =>
                /\ promise =
                       [state |-> "resolved",
                        value |-> [success |-> TRUE,
                                   path |-> utf8(SubSeq(stream, f.off + 10,
                                                        f.off + 8 + Len(f.data)))]]
                /\ SubSeq(stream, f.off + 9, f.off + 8 + Len(f.data)) = << 0, 98, 105, 110 >> =>
                       promise.value.path = << 98, 105, 110 >>

\* a whole frame with sub-tag 7 resolved the session with the path "b"
C7_Witness ==
    /\ promise = [state |-> "resolved", value |-> [success |-> TRUE, path |-> << 98 >>]]
    /\ \E i \in DOMAIN dispatched :
           /\ dispatched[i].tag = 3
           /\ Complete(dispatched[i])
           /\ dispatched[i].data = << 7, 98 >>

(***************************************************************************)
(* C8: a frame with a tag other than 0, 1, 2, 3 is answered by reject and  *)
(* by a kill of the subprocess: it resolves nothing, a session that was    *)
(* pending is rejected, and kill has been called once per such frame.      *)
(***************************************************************************)
UnknownTagged == { i \in DOMAIN dispatched : WordAt(stream, dispatched[i].off) \notin {0, 1, 2, 3} }

C8_UnknownTagFails ==
    /\ killCalls = Cardinality(UnknownTagged)
    /\ \A i \in UnknownTagged :
           /\ dispatched[i].act = "reject"
           /\ dispatched[i].before = "pending" => promise.state = "rejected"

\* the frame with tag 257 rejected a pending session and the kill was requested
C8_Witness ==
    /\ promise = [state |-> "rejected", value |-> "received unexpected message tag 257"]
    /\ killCalls = 1
    /\ ~exited

(***************************************************************************)
(* C9: when the subprocess has exited without having produced a terminal   *)
(* frame (the bytes it wrote hold no complete frame with tag 1 or 3), the  *)
(* session is rejected: neither pending nor resolved.                      *)
(***************************************************************************)
NoTerminalProduced ==
    \A f \in { FramesOf(SubSeq(stream, 1, pos))[i] :
                   i \in DOMAIN FramesOf(SubSeq(stream, 1, pos)) } : ~IsTerminal(f)

C9_ExitRejects == (exited /\ NoTerminalProduced) => promise.state = "rejected"

(***************************************************************************)
(* C10: no run of the stdout handler ends in an uncaught exception.        *)
(***************************************************************************)
C10_HandlerNeverThrows == handlerEnd # "throw"

(***************************************************************************)
(* C11: the client writes to the subprocess input once, at the start: the  *)
(* 16 bytes of the header {tag 1, length 0} followed by the header         *)
(* {tag 0, length 0}; the write is there before any frame is dispatched    *)
(* and nothing else is written in any state of the session.                *)
(***************************************************************************)
C11_Handshake ==
    stdinWrites = << << 1, 0, 0, 0,  0, 0, 0, 0,  0, 0, 0, 0,  0, 0, 0, 0 >> >>

\* a session that has dispatched frames, settled and exited
C11_Witness ==
    /\ Len(stdinWrites) = 1
    /\ Len(stdinWrites[1]) = 16
    /\ Len(dispatched) >= 2
    /\ exited

(***************************************************************************)
(* The records of a bundle as the format lays them out, read from the      *)
(* words without the accessors.                                            *)
(***************************************************************************)
\* word k of the bundle under decoding, for k inside the buffer
W(k) == bundle.extra[k + 1]

Words4(k, n) == [j \in 1 .. n |-> W(k + j - 1)]

\* a message record at index lies inside the buffer with its notes
WellFormedMessage(index) ==
    /\ index + 4 <= Len(bundle.extra)
    /\ index + 4 + W(index + 3) <= Len(bundle.extra)

\* a source-location record at index lies inside the buffer with its traces
WellFormedLocation(index) ==
    /\ index + 8 <= Len(bundle.extra)
    /\ index + 8 + W(index + 7) <= Len(bundle.extra)

\* the root list lies inside the buffer with its message indices
WellFormedList ==
    /\ 3 <= Len(bundle.extra)
    /\ W(1) + W(0) <= Len(bundle.extra)

Called(name) == call.name = name /\ result.threw = "none"

(***************************************************************************)
(* C12: count integrity: for a well-formed message record getNotes returns *)
(* exactly notesLen entries, the words at index+4 .. index+4+notesLen-1 in *)
(* stored order; for a well-formed source-location record                  *)
(* getReferenceTraces returns exactly referenceTraceLen entries, the words *)
(* at index+8 .. index+8+referenceTraceLen-1 in stored order.              *)
(***************************************************************************)
C12_CountIntegrity ==
    /\ (call.name = "getNotes" /\ WellFormedMessage(call.index)) =>
           /\ result.threw = "none"
           /\ Len(result.value) = W(call.index + 3)
           /\ result.value = Words4(call.index + 4, W(call.index + 3))
    /\ (call.name = "getReferenceTraces" /\ WellFormedLocation(call.index)) =>
           /\ result.threw = "none"
           /\ Len(result.value) = W(call.index + 7)
           /\ result.value = Words4(call.index + 8, W(call.index + 7))

\* the two reference traces of the location at word 15 were returned
C12_Witness ==
    /\ Called("getReferenceTraces")
    /\ bundle = FullBundle
    /\ call.index = 15
    /\ result.value = << 25, 27 >>

(***************************************************************************)
(* C13: errorMessageCount() is 0 for an empty extra buffer and word 0      *)
(* otherwise; for a well-formed root list (and for the empty buffer)       *)
(* getMessages() returns exactly that many indices, the words at           *)
(* start .. start+len-1 in stored order.                                   *)
(***************************************************************************)
C13_RootMessages ==
    /\ call.name = "errorMessageCount" =>
           /\ result.threw = "none"
           /\ result.value = IF bundle.extra = << >> THEN 0 ELSE W(0)
    /\ (call.name = "getMessages" /\ bundle.extra = << >>) =>
           result = [threw |-> "none", value |-> << >>]
    /\ (call.name = "getMessages" /\ WellFormedList) =>
           /\ result.threw = "none"
           /\ Len(result.value) = W(0)
           /\ result.value = Words4(W(1), W(0))

\* the two root messages of the full bundle were returned in stored order
C13_Witness ==
    /\ Called("getMessages")
    /\ bundle = FullBundle
    /\ result.value = << 5, 10 >>

(***************************************************************************)
(* C14: absent-optional convention: getErrorMessage reports no source      *)
(* location exactly when the srcLoc word of the record is 0, and           *)
(* getSourceLocation reports no source line exactly when the sourceLine    *)
(* word is 0; a non-zero word is returned unchanged.                       *)
(***************************************************************************)
C14_AbsentOptional ==
    /\ (call.name = "getErrorMessage" /\ call.index + 4 <= Len(bundle.extra)) =>
           /\ result.threw = "none"
           /\ (result.value.srcLoc = Undefined) <=> (W(call.index + 2) = 0)
           /\ W(call.index + 2) # 0 => result.value.srcLoc = W(call.index + 2)
    /\ (call.name = "getSourceLocation" /\ call.index + 8 <= Len(bundle.extra)) =>
           /\ result.threw = "none"
           /\ (result.value.sourceLine = Undefined) <=> (W(call.index + 6) = 0)
           /\ W(call.index + 6) # 0 => result.value.sourceLine = W(call.index + 6)

\* message A of the full bundle was decoded without a source location
C14_Witness ==
    /\ Called("getErrorMessage")
    /\ bundle = FullBundle
    /\ call.index = 5
    /\ result.value = [msg |-> 1, count |-> 1, srcLoc |-> Undefined, notesLen |-> 1]

(***************************************************************************)
(* C15: a reference-trace record whose second word is 0 decodes as a       *)
(* hidden-references sentinel whose hiddenReferences is the count stored   *)
(* in the record (its first word): 0 or N > 0.                             *)
(***************************************************************************)
Range(seq) == { seq[j] : j \in DOMAIN seq }

NotesOf(m) == IF WellFormedMessage(m) THEN Range(Words4(m + 4, W(m + 3))) ELSE { }

\* the root messages, their notes and the notes of these
MessageRecords ==
    LET roots == IF WellFormedList THEN Range(Words4(W(1), W(0))) ELSE { }
        notes == UNION { NotesOf(m) : m \in roots }
    IN  roots \cup notes \cup UNION { NotesOf(m) : m \in notes }

\* the source locations of these messages
LocationRecords ==
    { W(m + 2) : m \in { x \in MessageRecords : WellFormedMessage(x) /\ W(x + 2) # 0 } }

\* the reference traces of these locations
TraceRecords ==
    UNION { Range(Words4(l + 8, W(l + 7))) :
                l \in { x \in LocationRecords : WellFormedLocation(x) } }

C15_Sentinel ==
    (/\ call.name = "getReferenceTrace"
     /\ call.index \in TraceRecords
     /\ call.index + 2 <= Len(bundle.extra)
     /\ W(call.index + 1) = 0) =>
        /\ result.threw = "none"
        /\ result.value.kind = "sentinel"
        /\ result.value.hiddenReferences = W(call.index)

(***************************************************************************)
(* C16: looking up string index 0 gives the empty text whatever the bytes  *)
(* of the string storage are, and getCompileLogOutput() gives the empty    *)
(* text when the compileLogText of the root list is 0.                     *)
(***************************************************************************)
C16_AbsentString ==
    /\ (call.name = "nullTerminatedString" /\ call.index = 0) =>
           result = [threw |-> "none", value |-> << >>]
    /\ (call.name = "getCompileLogOutput" /\ 3 <= Len(bundle.extra) /\ W(2) = 0) =>
           result = [threw |-> "none", value |-> << >>]

(***************************************************************************)
(* C17: toString() emits every root message at indent 0 with the label     *)
(* "error" and then, recursively, each note of a message at indent + 4     *)
(* with the label "note", once per reference, whether or not the message   *)
(* that owns the notes has a source location.                              *)
(***************************************************************************)
\* every record reachable from the root list lies inside the buffer, and no
\* message is a note of itself or of one of its notes
Healthy ==
    /\ WellFormedList
    /\ \A m \in MessageRecords : m \notin NotesOf(m) \cup UNION { NotesOf(n) : n \in NotesOf(m) }
    /\ \A m \in MessageRecords : WellFormedMessage(m) /\ W(m + 1) >= 1
    /\ \A l \in LocationRecords : WellFormedLocation(l)

IsLabel(piece) == piece.k = "lit" /\ piece.s \in { "error", "note" }

LabelPositions(out) == SelectSeq([i \in 1 .. Len(out) |-> i], LAMBDA i : IsLabel(out[i]))

\* the indent of the line whose label is at position p: the repeat of spaces
\* that starts the line, one piece back without and seven with a location
IndentAt(out, p) == IF out[p - 1].k = "repeat" THEN out[p - 1].n ELSE out[p - 7].n

\* the label and the indent of every message line of a text, in order
Outline(out) ==
    [j \in 1 .. Len(LabelPositions(out)) |->
        [kind |-> out[LabelPositions(out)[j]].s,
         indent |-> IndentAt(out, LabelPositions(out)[j])]]

RECURSIVE OutlineOf(_, _, _, _)
RECURSIVE OutlineOfAll(_, _, _, _)

\* the lines the stored tree calls for: the message, then its notes
OutlineOf(m, kind, indent, fuel) ==
    IF fuel = 0 THEN << >>
    ELSE << [kind |-> kind, indent |-> indent] >>
         \o OutlineOfAll(Words4(m + 4, W(m + 3)), "note", indent + 4, fuel - 1)

OutlineOfAll(ms, kind, indent, fuel) ==
    IF ms = << >> THEN << >>
    ELSE OutlineOf(Head(ms), kind, indent, fuel) \o OutlineOfAll(Tail(ms), kind, indent, fuel)

ExpectedOutline == OutlineOfAll(Words4(W(1), W(0)), "error", 0, Len(bundle.extra))

C17_NotesRendered ==
    (call.name = "toString" /\ Healthy) =>
        /\ result.threw = "none"
        /\ Outline(result.value) = ExpectedOutline

(***************************************************************************)
(* C18: in the line renderErrorMessage writes for a message with           *)
(* count >= 1, the suffix " (<count> times)" follows the text exactly when *)
(* count > 1 (none for count = 1), and for a message with a source         *)
(* location the line and column printed are the stored words plus one.     *)
(***************************************************************************)
\* the position of the label in the first line of a rendered message
FirstLabel(out) == LabelPositions(out)[1]

NumberPiece(n) == [k |-> "num", s |-> "", n |-> n, text |-> << >>]

HasSuffix(out, count) ==
    /\ Len(out) >= FirstLabel(out) + 5
    /\ out[FirstLabel(out) + 3] = [k |-> "lit", s |-> " (", n |-> 0, text |-> << >>]
    /\ out[FirstLabel(out) + 4] = NumberPiece(count)
    /\ out[FirstLabel(out) + 5] = [k |-> "lit", s |-> " times)\n", n |-> 0, text |-> << >>]

NoSuffix(out) ==
    out[FirstLabel(out) + 3] = [k |-> "lit", s |-> "\n", n |-> 0, text |-> << >>]

C18_RepeatSuffix ==
    (/\ call.name = "renderErrorMessage"
     /\ result.threw = "none"
     /\ call.index \in MessageRecords
     /\ WellFormedMessage(call.index)
     /\ W(call.index + 1) >= 1
     /\ (W(call.index + 2) # 0 => WellFormedLocation(W(call.index + 2)))) =>
        /\ Len(result.value) >= FirstLabel(result.value) + 3
        /\ (W(call.index + 1) > 1) <=> HasSuffix(result.value, W(call.index + 1))
        /\ (W(call.index + 1) = 1) <=> NoSuffix(result.value)
        /\ W(call.index + 2) # 0 =>
               /\ result.value[FirstLabel(result.value) - 4]
                      = NumberPiece(W(W(call.index + 2) + 1) + 1)
               /\ result.value[FirstLabel(result.value) - 2]
                      = NumberPiece(W(W(call.index + 2) + 2) + 1)

\* message B of the full bundle (count 3, line 0, column 4) was rendered as
\* "p:1:5: error: e (3 times)"
C18_Witness ==
    /\ call.name = "renderErrorMessage"
    /\ result.threw = "none"
    /\ bundle = FullBundle
    /\ call.index = 10
    /\ call.kind = "error"
    /\ result.value[4] = NumberPiece(1)
    /\ result.value[6] = NumberPiece(5)
    /\ HasSuffix(result.value, 3)

(***************************************************************************)
(* C19: a frame is dispatched only when the buffer holds its header and    *)
(* all of its payload: the payload handed to the switch on the tag has     *)
(* exactly the number of bytes the header of the frame declares.           *)
(***************************************************************************)
C19_WholePayload ==
    \A i \in DOMAIN dispatched : Len(dispatched[i].data) = dispatched[i].bytesLen

(***************************************************************************)
(* C20: when a stdout data event ends without an exception and leaves the  *)
(* promise pending, the buffer holds no complete frame: every complete     *)
(* frame of the bytes received so far has been dispatched, in stream       *)
(* order, also when one chunk carries several frames.                      *)
(***************************************************************************)
Received == SubSeq(stream, 1, pos)

C20_BufferDrained ==
    (promise.state = "pending" /\ handlerEnd # "throw") =>
        /\ FramesOf(dataBuffer) = << >>
        /\ Len(dispatched) >= Len(FramesOf(Received))
        /\ \A i \in DOMAIN FramesOf(Received) :
               /\ dispatched[i].tag = FramesOf(Received)[i].tag
               /\ dispatched[i].data = FramesOf(Received)[i].payload

(***************************************************************************)
(* C21: on every protocol violation (unknown tag, error-bundle length that *)
(* disagrees with its sub-header, error-bundle payload shorter than its    *)
(* fixed fields) the client attempts to terminate the subprocess: every    *)
(* whole frame whose dispatch rejected the promise has its kill call.      *)
(***************************************************************************)
\* the dispatches of whole frames that called reject
Violations == { i \in DOMAIN dispatched : dispatched[i].act = "reject" /\ Complete(dispatched[i]) }

C21_KillOnViolation == Violations # { } => killCalls >= Cardinality(Violations)

(***************************************************************************)
(* C22: for a malformed bundle, an accessor called on a record the bundle  *)
(* refers to whose reads leave the extra buffer, or on a string the bundle *)
(* refers to that has no terminating zero byte, surfaces a decode error:   *)
(* it does not return a record with undefined fields, a shortened run or   *)
(* a cut text.                                                             *)
(***************************************************************************)
\* the strings the reachable messages refer to
StringRecords == { W(m) : m \in { x \in MessageRecords : x + 4 <= Len(bundle.extra) } }

Unterminated(index) == \A k \in (index + 1) .. Len(bundle.stringBytes) : bundle.stringBytes[k] # 0

ReadsOutOfRange ==
    \/ call.name = "getErrorMessage" /\ call.index \in MessageRecords
           /\ call.index + 4 > Len(bundle.extra)
    \/ call.name = "getNotes" /\ call.index \in MessageRecords
           /\ ~WellFormedMessage(call.index)
    \/ call.name = "getSourceLocation" /\ call.index \in LocationRecords
           /\ call.index + 8 > Len(bundle.extra)
    \/ call.name = "getReferenceTraces" /\ call.index \in LocationRecords
           /\ ~WellFormedLocation(call.index)
    \/ call.name = "nullTerminatedString" /\ call.index \in StringRecords
           /\ Unterminated(call.index)

C22_DecodeError == ReadsOutOfRange => result.threw # "none"

(***************************************************************************)
(* C23: in the caret line of a message rendered with its source line, the  *)
(* number of tildes after the caret is max(0, spanEnd - spanMain - 1):     *)
(* rendering does not fail on a negative repeat count, and the tildes are  *)
(* there when the span extends beyond the caret.                           *)
(***************************************************************************)
\* the source location of the message record m
LocationOf(m) == W(m + 2)

TildesAfter(l) == IF W(l + 5) - W(l + 4) - 1 > 0 THEN W(l + 5) - W(l + 4) - 1 ELSE 0

C23_TildesAfterCaret ==
    (/\ call.name = "renderErrorMessage"
     /\ call.options.includeSourceLine
     /\ call.index \in MessageRecords
     /\ WellFormedMessage(call.index)
     /\ LocationOf(call.index) # 0
     /\ WellFormedLocation(LocationOf(call.index))
     /\ W(LocationOf(call.index) + 6) # 0) =>
        /\ result.threw = "none"
        /\ \E i \in 1 .. (Len(result.value) - 1) :
               /\ result.value[i] = [k |-> "lit", s |-> "^", n |-> 0, text |-> << >>]
               /\ result.value[i + 1] =
                      [k |-> "repeat", s |-> "~",
                       n |-> TildesAfter(LocationOf(call.index)), text |-> << >>]

(***************************************************************************)
(* C24: rendering terminates for every bundle, also for a malformed one    *)
(* whose notes refer back to the message itself: the recursion over the    *)
(* notes is bounded and toString() returns a text.                         *)
(***************************************************************************)
C24_RenderingReturns == call.name = "toString" => result.threw = "none"

(***************************************************************************)
(* C25: stream alignment is kept after every stdout data event: the bytes  *)
(* of the frames dispatched so far followed by the bytes left in the       *)
(* buffer are the bytes received so far, and every dispatched frame and    *)
(* the buffer start at a frame boundary of the stream, so that no payload  *)
(* byte is read as part of a header.                                       *)
(***************************************************************************)
\* the offsets at which the frames of s start, and the offset after the last
\* whole frame
RECURSIVE Boundaries(_, _)
Boundaries(s, off) ==
    IF Len(s) - off < 8 \/ Len(s) - off - 8 < WordAt(s, off + 4)
    THEN { off }
    ELSE { off } \cup Boundaries(s, off + 8 + WordAt(s, off + 4))

\* the bytes the handler has taken out of the buffer, in order
RECURSIVE DispatchedBytes(_)
DispatchedBytes(ds) ==
    IF ds = << >> THEN << >>
    ELSE writeUInt32LE(Head(ds).tag) \o writeUInt32LE(Head(ds).bytesLen) \o Head(ds).data
         \o DispatchedBytes(Tail(ds))

C25_Alignment ==
    /\ DispatchedBytes(dispatched) \o dataBuffer = Received
    /\ pos - Len(dataBuffer) \in Boundaries(stream, 0)
    /\ \A i \in DOMAIN dispatched : dispatched[i].off \in Boundaries(stream, 0)

====
